---------------------------- MODULE Spec2Model ----------------------------
(***************************************************************************)
(* A model of bagpipes/fit.py: the Fit class that resolves a declarative   *)
(* fit_instructions dictionary into free / fixed / dependent parameters,   *)
(* turns parameter vectors into model_components dictionaries, evaluates   *)
(* the log-probability of a model against a Galaxy's data and rebuilds     *)
(* posterior quantities from the sampler's persisted samples.              *)
(*                                                                         *)
(* Representation of Python values.                                        *)
(*   - every Python value is a record tagged by its type in field t:       *)
(*     "float", "int", "tuple", "str", "dict", "None", "array", ...        *)
(*   - floats are fixed-point integers counting tenths (0.5 is 5);         *)
(*   - a dictionary key / field name is the sequence of its tokens, so     *)
(*     that "Av" is <<"Av">>, "Avprior" is <<"Av","prior">> and            *)
(*     "Avpriormu" is <<"Av","prior","mu">>: key + "prior" appends the     *)
(*     token and key[-5:] == "prior" tests the last one;                   *)
(*   - a string value is the sequence of its ":"-separated segments (what  *)
(*     str.split(":") returns), each segment a name; field names hold no   *)
(*     ":" themselves;                                                     *)
(*   - a dict is the sequence of its [key, val] items in iteration order.  *)
(***************************************************************************)
EXTENDS Integers, Sequences, FiniteSets, TLC

VARIABLES
    fit_arg,      \* the fit_instructions dictionary the caller passes to Fit(...)
    Galaxy,       \* the Galaxy object passed to Fit(...)
    type_interned,\* whether the caller's "type" keys are the interned literal object
    sample_file,  \* <ID>-post_equal_weights.dat as persisted by the sampler
    self,         \* the attributes of the Fit instance
    call,         \* the last call made on the instance: method, argument, outcome
    models_built, \* how many times Model_Galaxy(...) has been constructed
    memo,         \* an earlier get_lnprob call, kept to compare repeated calls
    post_info,    \* the last get_post_info invocation: the store before and after
    new_samples   \* the sampler has written samples no get_post_info has seen

vars == <<fit_arg, Galaxy, type_interned, sample_file, self, call, models_built, memo,
          post_info, new_samples>>

---------------------------------------------------------------------------
(* Python values *)

None == [t |-> "None"]
Unset == [t |-> "unset"]          \* an attribute that has not been assigned yet
Flt(v) == [t |-> "float", v |-> v]
IntV(v) == [t |-> "int", v |-> v]
Tup(lo, hi) == [t |-> "tuple", lo |-> lo, hi |-> hi]
StrV(segments) == [t |-> "str", s |-> segments]
Word(w) == StrV(<< <<w>> >>)
Dict(items) == [t |-> "dict", items |-> items]
Item(k, v) == [key |-> k, val |-> v]

PRIOR == "prior"
TYPE == <<"type">>
HUBBLE_TIME == Word("hubble time")
UNIFORM == Word("uniform")

(* body(value), with value computed once *)
With(value, body(_)) == CHOOSE r \in {body(x) : x \in {value}} : TRUE

RECURSIVE Flatten(_)
Flatten(ss) == IF ss = <<>> THEN <<>> ELSE Head(ss) \o Flatten(Tail(ss))

Range(s) == {s[i] : i \in 1..Len(s)}

(* dict operations on item sequences *)
DictKeys(d) == [i \in 1..Len(d) |-> d[i].key]
DictHas(d, k) == \E i \in 1..Len(d) : d[i].key = k
DictGet(d, k) == d[CHOOSE i \in 1..Len(d) : d[i].key = k].val
DictSet(d, k, v) ==
    IF DictHas(d, k)
    THEN [i \in 1..Len(d) |-> IF d[i].key = k THEN Item(k, v) ELSE d[i]]
    ELSE Append(d, Item(k, v))

(* a key with "prior" anywhere in it *)
MentionsPrior(k) == \E i \in 1..Len(k) : k[i] = PRIOR

(* line 150: sfh_comp_key[-5:] == "prior" *)
EndsWithPrior(k) == Len(k) >= 1 /\ k[Len(k)] = PRIOR

---------------------------------------------------------------------------
(* Fit.process_fit_instructions *)

(* the inner loop over one component (lines 144-152): what each item adds *)
component_leaves(key, comp, interned) ==
    Flatten([j \in 1..Len(comp) |->
        LET sfh_comp_key == comp[j].key
            v == comp[j].val
        IN  IF v.t = "tuple"
            THEN << [kind |-> "free", name |-> <<key, sfh_comp_key>>, val |-> v] >>
            ELSE IF v.t = "float" \/ v.t = "str"
            THEN IF /\ ~(sfh_comp_key = TYPE /\ interned)    \* key is not "type"
                    /\ ~EndsWithPrior(sfh_comp_key)
                    /\ v # HUBBLE_TIME
                 THEN << [kind |-> "fixed", name |-> <<key, sfh_comp_key>>, val |-> v] >>
                 ELSE <<>>
            ELSE <<>>])

(* the outer loop over the top-level keys (lines 134-152) *)
instruction_leaves(fi, interned) ==
    Flatten([i \in 1..Len(fi) |->
        LET key == fi[i].key
            v == fi[i].val
        IN  IF v.t = "tuple"
            THEN << [kind |-> "free", name |-> <<key>>, val |-> v] >>
            ELSE IF v.t = "float"
            THEN << [kind |-> "fixed", name |-> <<key>>, val |-> v] >>
            ELSE IF v.t = "dict"
            THEN component_leaves(key, v.items, interned)
            ELSE <<>>])

(* resolve_prior looking for the prior key among the top-level keys only *)
resolve_prior_top_level_only(fi, fit_param) ==
    IF DictHas(fi, Append(fit_param[Len(fit_param)], PRIOR))
    THEN [prior |-> DictGet(fi, Append(fit_param[Len(fit_param)], PRIOR)), warned |-> FALSE]
    ELSE [prior |-> UNIFORM, warned |-> TRUE]

(* the prior of one fit parameter (lines 157-165): its value, and whether  *)
(* the warning is printed                                                  *)
resolve_prior(fi, fit_param) ==
    IF Len(fit_param) = 1 /\ DictHas(fi, Append(fit_param[1], PRIOR))
    THEN [prior |-> DictGet(fi, Append(fit_param[1], PRIOR)), warned |-> FALSE]
    ELSE IF /\ Len(fit_param) = 2
            /\ DictHas(DictGet(fi, fit_param[1]).items, Append(fit_param[2], PRIOR))
    THEN [prior |-> DictGet(DictGet(fi, fit_param[1]).items, Append(fit_param[2], PRIOR)),
          warned |-> FALSE]
    ELSE [prior |-> UNIFORM, warned |-> TRUE]

process_fit_instructions(obj, interned) ==
    LET leaves == instruction_leaves(obj.fit_instructions, interned)
        free == SelectSeq(leaves, LAMBDA l : l.kind = "free")
        fixed == SelectSeq(leaves, LAMBDA l : l.kind = "fixed")
        fit_params == obj.fit_params \o [i \in 1..Len(free) |-> free[i].name]
        resolved == [i \in 1..Len(fit_params) |->
                        resolve_prior(obj.fit_instructions, fit_params[i])]
    IN  [obj EXCEPT
            !.fit_limits = @ \o [i \in 1..Len(free) |-> free[i].val],
            !.fit_params = fit_params,
            !.fixed_values = @ \o [i \in 1..Len(fixed) |-> fixed[i].val],
            !.fixed_params = @ \o [i \in 1..Len(fixed) |-> fixed[i].name],
            !.priors = @ \o [i \in 1..Len(resolved) |-> resolved[i].prior],
            !.stdout = @ \o SelectSeq(fit_params,
                                LAMBDA p : resolve_prior(obj.fit_instructions, p).warned),
            !.ndim = Len(fit_params)]


---------------------------------------------------------------------------
(* Fixed-point arithmetic on tenths, and the numpy functions the code calls *)

FMul(a, b) == (a * b) \div 10
FDiv(a, b) == (a * 10) \div b
Half(a) == a \div 2

RECURSIVE SumTo(_, _)
SumTo(s, n) == IF n = 0 THEN 0 ELSE s[n] + SumTo(s, n - 1)
SumSeq(s) == SumTo(s, Len(s))

(* np.log on the arguments that occur: the hyperparameters 0.5, 1.0, 2.0   *)
(* and 2*pi*err^2 for err = 1.0 and err = 2.0                              *)
np_log(x) ==
    CASE x = 5 -> -7
      [] x = 10 -> 0
      [] x = 20 -> 7
      [] x = 62 -> 18
      [] x = 251 -> 32

TWO_PI == 62

---------------------------------------------------------------------------
(* The Galaxy object: the observed data *)

(* the flux and flux error of row j of a data table *)
obs_flux(j) == 10 + (j % 3)
obs_err(j) == 10

galaxy_spectrum(g) == [j \in 1..g.n_spec |-> [wav |-> j, flux |-> obs_flux(j), err |-> obs_err(j)]]
galaxy_photometry(g) == [j \in 1..g.n_phot |-> [wav |-> j, flux |-> obs_flux(j + 1), err |-> obs_err(j)]]
galaxy_filtlist(g) == IF g.photometry_exists THEN Word("filters") ELSE None

---------------------------------------------------------------------------
(* The forward model (model_galaxy.Model_Galaxy) and the cosmology table   *)
(* (model_manager.z_array, age_at_z)                                       *)

NumAgeBins == 2

Constructed == self.t = "Fit"

LeafNumber(v) == IF v.t \in {"float", "int"} THEN v.v ELSE 0

(* a number that depends on every numeric leaf of a model_components dict *)
components_signature(mc) ==
    SumSeq([i \in 1..Len(mc) |->
        IF mc[i].val.t = "dict"
        THEN SumSeq([j \in 1..Len(mc[i].val.items) |-> (i + j) * LeafNumber(mc[i].val.items[j].val)])
        ELSE i * LeafNumber(mc[i].val)])

Model_Galaxy(model_components, filtlist, output_specwavs) ==
    [t |-> "Model_Galaxy", components |-> model_components,
     filtlist |-> filtlist, output_specwavs |-> output_specwavs]

Model_update(Model, model_components) == [Model EXCEPT !.components = model_components]

(* Model.sfh.maxage: the largest "age" of any component *)
Model_sfh_maxage(Model) ==
    LET ages == {LeafNumber(DictGet(Model.components[i].val.items, <<"age">>)) :
                    i \in {k \in 1..Len(Model.components) :
                              /\ Model.components[k].val.t = "dict"
                              /\ DictHas(Model.components[k].val.items, <<"age">>)}}
    IN  IF ages = {} THEN 0 ELSE CHOOSE a \in ages : \A b \in ages : b <= a

Model_sfh_ages(Model) == [b \in 1..NumAgeBins |-> b]
Model_sfh_sfr(Model) ==
    With(components_signature(Model.components), LAMBDA sig :
        [b \in 1..NumAgeBins |-> sig + b])
Model_spectrum(Model) ==
    With(components_signature(Model.components), LAMBDA sig :
        [j \in 1..Len(Model.output_specwavs.v) |->
            [wav |-> Model.output_specwavs.v[j], flux |-> 10 * (1 + ((sig + j) % 4))]])
Model_photometry(Model, n_filters) ==
    With(components_signature(Model.components), LAMBDA sig :
        [j \in 1..n_filters |-> 10 * (1 + ((sig + 2 * j) % 5))])

NumModelWavs == 2

Model_sfh_age_widths(Model) == [b \in 1..NumAgeBins |-> 1]

(* Model.sfh_components: the names of the components that form stars *)
Model_sfh_components(Model) ==
    LET forming == SelectSeq(Model.components,
                       LAMBDA e : e.val.t = "dict" /\ DictHas(e.val.items, <<"massformed">>))
    IN  [i \in 1..Len(forming) |-> forming[i].key]

(* Model.living_stellar_mass[comp] and Model.living_stellar_mass["total"] *)
Model_living_stellar_mass(Model, comp) ==
    LeafNumber(DictGet(DictGet(Model.components, comp).items, <<"massformed">>))
Model_living_stellar_mass_total(Model) ==
    SumSeq([i \in 1..Len(Model_sfh_components(Model)) |->
               Model_living_stellar_mass(Model, Model_sfh_components(Model)[i])])

Model_get_restframe_UVJ(Model) ==
    With(components_signature(Model.components), LAMBDA sig :
        [c \in 1..3 |-> (sig + c) % 7])
Model_spectrum_full(Model) ==
    With(components_signature(Model.components), LAMBDA sig :
        [j \in 1..NumModelWavs |-> 10 * (1 + ((sig + 3 * j) % 4))])
Model_polynomial(Model) == None

(* np.interp(z, models.z_array, models.age_at_z): the age of the Universe *)
age_at_z(z) ==
    CASE z <= 0 -> 138
      [] z > 0 /\ z <= 5 -> 86
      [] z > 5 /\ z <= 10 -> 59
      [] z > 10 -> 33

---------------------------------------------------------------------------
(* Fit.__init__ *)

Array(v) == [t |-> "array", v |-> v]

(* -0.5*np.sum(np.log(2*np.pi*table[:,2]**2)) *)
log_norm(table) ==
    -Half(SumSeq([j \in 1..Len(table) |-> np_log(FMul(TWO_PI, FMul(table[j].err, table[j].err)))]))

(* self.posterior = {}: the keys the store can hold, none of them present. *)
(* columns holds the per-parameter entries posterior[fit_params[i]], each  *)
(* a view of column i of posterior["samples"]                              *)
EmptyStore ==
    [samples |-> Unset, columns |-> <<>>, sfh |-> Unset, sfr |-> Unset, tmw |-> Unset,
     UVJ |-> Unset, living_stellar_mass |-> Unset, photometry |-> Unset,
     spectrum |-> Unset, polynomial |-> Unset, spectrum_full |-> Unset]

Fit_init(galaxy, fit_instructions, interned) ==
    LET s0 == [Model |-> None,
               fit_instructions |-> fit_instructions,     \* deepcopy(fit_instructions)
               fit_limits |-> <<>>, fit_params |-> <<>>,
               fixed_params |-> <<>>, fixed_values |-> <<>>,
               priors |-> <<>>, ndim |-> Unset, stdout |-> <<>>]
        s1 == process_fit_instructions(s0, interned)
    IN  [t |-> "Fit",
         Galaxy |-> galaxy,
         Model |-> s1.Model,
         fit_instructions |-> s1.fit_instructions,
         fit_limits |-> s1.fit_limits, fit_params |-> s1.fit_params,
         fixed_params |-> s1.fixed_params, fixed_values |-> s1.fixed_values,
         priors |-> s1.priors, ndim |-> s1.ndim, stdout |-> s1.stdout,
         posterior |-> EmptyStore,
         K_phot |-> IF galaxy.photometry_exists THEN log_norm(galaxy_photometry(galaxy)) ELSE 0,
         K_spec |-> IF galaxy.spectrum_exists THEN log_norm(galaxy_spectrum(galaxy)) ELSE 0,
         N_spec |-> IF galaxy.spectrum_exists THEN Len(galaxy_spectrum(galaxy)) ELSE 0,
         N_phot |-> IF galaxy.photometry_exists THEN Len(galaxy_photometry(galaxy)) ELSE 0,
         hyp_spec |-> 10, hyp_phot |-> 10,
         chisq_spec |-> [v |-> 0, np |-> FALSE], chisq_phot |-> [v |-> 0, np |-> FALSE],
         model_components |-> Unset,
         posterior_median |-> Unset, conf_int |-> Unset,
         global_log_evidence |-> Unset, global_log_evidence_err |-> Unset,
         best_fit_params |-> Unset,
         min_chisq |-> Unset, min_chisq_red |-> Unset, ndof |-> Unset]

---------------------------------------------------------------------------
(* The outcome of a method call: the instance afterwards, the value        *)
(* returned or the exception raised, and what the call did on the way:     *)
(* forward models constructed, get_model calls, reads of the sample file.  *)

Outcome(obj, ret, exc, built, adapter_calls, file_reads) ==
    [obj |-> obj, ret |-> ret, exc |-> exc, built |-> built,
     adapter_calls |-> adapter_calls, file_reads |-> file_reads]

Returns(obj, ret) == Outcome(obj, ret, "none", 0, 0, 0)
Raises(obj, exc) == Outcome(obj, None, exc, 0, 0, 0)

---------------------------------------------------------------------------
(* Fit.get_model_components *)

(* lines 358-363: the fit parameters take the values of the vector *)
RECURSIVE insert_fit_params(_, _, _, _)
insert_fit_params(model_components, fit_params, param, i) ==
    IF i > Len(fit_params) THEN model_components
    ELSE LET name == fit_params[i]
             next == IF Len(name) = 1
                     THEN DictSet(model_components, name[1], Flt(param[i]))
                     ELSE IF Len(name) = 2
                     THEN DictSet(model_components, name[1],
                              Dict(DictSet(DictGet(model_components, name[1]).items,
                                           name[2], Flt(param[i]))))
                     ELSE model_components
         IN  insert_fit_params(next, fit_params, param, i + 1)

(* line 368, for one string-valued entry of fixed_values: the right-hand   *)
(* side is read at the two segments of the value, then stored at the two   *)
(* segments of the parameter's name                                        *)
set_dependent(model_components, name, value) ==
    LET source == value.s
    IN  IF Len(source) < 2 THEN [mc |-> model_components, exc |-> "IndexError"]
        ELSE IF ~DictHas(model_components, source[1])
        THEN [mc |-> model_components, exc |-> "KeyError"]
        ELSE IF DictGet(model_components, source[1]).t # "dict"
        THEN [mc |-> model_components, exc |-> "TypeError"]
        ELSE IF ~DictHas(DictGet(model_components, source[1]).items, source[2])
        THEN [mc |-> model_components, exc |-> "KeyError"]
        ELSE [mc |-> DictSet(model_components, name[1],
                        Dict(DictSet(DictGet(model_components, name[1]).items, name[2],
                                     DictGet(DictGet(model_components, source[1]).items, source[2])))),
              exc |-> "none"]

(* lines 366-368 *)
RECURSIVE resolve_dependents(_, _, _, _)
resolve_dependents(res, fixed_params, fixed_values, i) ==
    IF res.exc # "none" \/ i > Len(fixed_values) THEN res
    ELSE resolve_dependents(
            IF fixed_values[i].t = "str"
            THEN set_dependent(res.mc, fixed_params[i], fixed_values[i])
            ELSE res,
            fixed_params, fixed_values, i + 1)

(* model_components = self.fit_instructions: the vector merged into the    *)
(* dictionary of the schema itself                                         *)
merge_target_shared(fit_instructions) == [items |-> fit_instructions, shared |-> TRUE]

(* line 354: the dictionary a vector is merged into is a deep copy, which  *)
(* shares nothing with self.fit_instructions                               *)
merge_target(fit_instructions) == [items |-> fit_instructions, shared |-> FALSE]

(* the model_components returned, the exception raised on the way, and     *)
(* self.fit_instructions after the call                                    *)
get_model_components(obj, param) ==
    IF param.t = "dict"
    THEN [mc |-> param.items, exc |-> "none", fit_instructions |-> obj.fit_instructions]
    ELSE With(merge_target(obj.fit_instructions), LAMBDA target :
         With(resolve_dependents(
                [mc |-> insert_fit_params(target.items, obj.fit_params, param.v, 1),
                 exc |-> "none"],
                obj.fixed_params, obj.fixed_values, 1), LAMBDA res :
            [mc |-> res.mc, exc |-> res.exc,
             fit_instructions |-> IF target.shared THEN res.mc ELSE obj.fit_instructions]))

---------------------------------------------------------------------------
(* Fit.get_model *)

(* get_model building a new forward model on every call *)
needs_construction_always(Model) == TRUE

(* line 317 *)
needs_construction(Model) == Model = None

get_model(obj, param) ==
    With(get_model_components(obj, param), LAMBDA made :
        IF made.exc # "none"
        THEN Raises([obj EXCEPT !.fit_instructions = made.fit_instructions], made.exc)
        ELSE IF needs_construction(obj.Model)
        THEN Outcome([obj EXCEPT
                        !.fit_instructions = made.fit_instructions,
                        !.model_components = made.mc,
                        !.Model =
                            IF obj.Galaxy.spectrum_exists
                            THEN Model_Galaxy(made.mc, galaxy_filtlist(obj.Galaxy),
                                    Array([j \in 1..obj.Galaxy.n_spec |-> galaxy_spectrum(obj.Galaxy)[j].wav]))
                            ELSE Model_Galaxy(made.mc, galaxy_filtlist(obj.Galaxy), None)],
                     None, "none", 1, 1, 0)
        ELSE Outcome([obj EXCEPT !.fit_instructions = made.fit_instructions,
                                 !.model_components = made.mc,
                                 !.Model = Model_update(obj.Model, made.mc)],
                     None, "none", 0, 1, 0))

---------------------------------------------------------------------------
(* Fit.get_lnprob *)

LNPROB_VETO == -999000000      \* -9.99*10**99, below every other log-probability

(* np.sum((data[:,1] - model)**2/data[:,2]**2) *)
chi_squared(data, model_flux) ==
    SumSeq([j \in 1..Len(data) |->
        With(data[j].flux - model_flux[j], LAMBDA d :
            FDiv(FMul(d, d), FMul(data[j].err, data[j].err)))])

IsNumber(v) == v.t \in {"float", "int"}

(* the age comparison the wrong way round *)
age_allowed_reversed(maxage, universe_age) == maxage >= universe_age

(* line 275: the model's oldest stars are no older than the Universe *)
age_allowed(maxage, universe_age) == maxage <= universe_age

(* lines 276-280: the error hyperparameters, when model_components has them *)
read_hyperparameters(obj) ==
    [obj EXCEPT
        !.hyp_spec = IF DictHas(obj.model_components, <<"hypspec">>)
                     THEN DictGet(obj.model_components, <<"hypspec">>).v ELSE @,
        !.hyp_phot = IF DictHas(obj.model_components, <<"hypphot">>)
                     THEN DictGet(obj.model_components, <<"hypphot">>).v ELSE @]

(* lines 282-286: the chi-squared of each data set that exists *)
compute_chisq(obj) ==
    [obj EXCEPT
        !.chisq_spec = IF obj.Galaxy.spectrum_exists
                       THEN [v |-> chi_squared(galaxy_spectrum(obj.Galaxy),
                                       [j \in 1..obj.Galaxy.n_spec |-> Model_spectrum(obj.Model)[j].flux]),
                             np |-> TRUE]
                       ELSE @,
        !.chisq_phot = IF obj.Galaxy.photometry_exists
                       THEN [v |-> chi_squared(galaxy_photometry(obj.Galaxy),
                                       Model_photometry(obj.Model, obj.Galaxy.n_phot)),
                             np |-> TRUE]
                       ELSE @]

(* line 295 *)
lnprob_value(obj) ==
    obj.K_phot + obj.K_spec
    + Half(obj.N_spec * np_log(obj.hyp_spec)) + Half(obj.N_phot * np_log(obj.hyp_phot))
    - Half(FMul(obj.hyp_phot, obj.chisq_phot.v)) - Half(FMul(obj.hyp_spec, obj.chisq_spec.v))

get_lnprob(obj, x) ==
    With(get_model(obj, x), LAMBDA got :
        IF got.exc # "none" THEN got
        ELSE IF ~DictHas(got.obj.model_components, <<"redshift">>)
        THEN [got EXCEPT !.exc = "KeyError"]
        ELSE IF ~IsNumber(DictGet(got.obj.model_components, <<"redshift">>))
        THEN [got EXCEPT !.exc = "TypeError"]
        ELSE IF age_allowed(Model_sfh_maxage(got.obj.Model),
                            age_at_z(DictGet(got.obj.model_components, <<"redshift">>).v))
        THEN With(compute_chisq(read_hyperparameters(got.obj)), LAMBDA o :
                [got EXCEPT !.obj = o, !.ret = Flt(lnprob_value(o))])
        ELSE [got EXCEPT !.ret = Flt(LNPROB_VETO)])

---------------------------------------------------------------------------
(* Floating-point arithmetic: every sum and difference of two floats is    *)
(* rounded to the nearest float, ties to even. A float here carries        *)
(* MantissaBits significant bits (53 in the doubles of the program).       *)

MantissaBits == 8

(* the power of two a magnitude has to be scaled by to fit the significand *)
RECURSIVE Exponent(_)
Exponent(a) == IF a < 2^MantissaBits THEN 0 ELSE 1 + Exponent(a \div 2)

RoundNearestEven(a) ==
    LET e == Exponent(a)
        q == a \div 2^e
        r == a % 2^e
    IN  IF e = 0 THEN a
        ELSE IF 2 * r > 2^e \/ (2 * r = 2^e /\ q % 2 = 1) THEN (q + 1) * 2^e
        ELSE q * 2^e

fl(n) == IF n < 0 THEN -RoundNearestEven(-n) ELSE RoundNearestEven(n)

float_sub(a, b) == fl(a - b)
float_add(a, b) == fl(a + b)
float_mul(a, b) == fl(FMul(a, b))

---------------------------------------------------------------------------
(* Fit.prior_transform *)

(* the value of a transform that is not computed here: the function of     *)
(* the bounds and of the unit-cube value the family's formula denotes      *)
Transformed(family, lo, hi, u, mu, sigma) ==
    [t |-> "float", family |-> family, lo |-> lo, hi |-> hi, u |-> u, mu |-> mu, sigma |-> sigma]

Entry(val) == [val |-> val, exc |-> "none"]
EntryRaises(exc) == [val |-> None, exc |-> exc]

(* lines 250-256: the mean and the width of a Gaussian prior are read from *)
(* the keys next to the parameter                                          *)
gaussian_hyperparameters(obj, fit_param) ==
    LET siblings == IF Len(fit_param) = 1 THEN obj.fit_instructions
                    ELSE DictGet(obj.fit_instructions, fit_param[1]).items
        field == fit_param[Len(fit_param)]
    IN  IF /\ DictHas(siblings, field \o <<PRIOR, "mu">>)
           /\ DictHas(siblings, field \o <<PRIOR, "sigma">>)
        THEN [exc |-> "none", mu |-> DictGet(siblings, field \o <<PRIOR, "mu">>),
              sigma |-> DictGet(siblings, field \o <<PRIOR, "sigma">>)]
        ELSE [exc |-> "KeyError", mu |-> None, sigma |-> None]

(* the loop body without its tests of the family: every entry, whatever   *)
(* its prior, is transformed as a uniform one                              *)
transform_entry_default_uniform(obj, i, u) ==
    LET lo == obj.fit_limits[i].lo
        hi == obj.fit_limits[i].hi
    IN  Entry(Flt(float_add(lo, float_mul(float_sub(hi, lo), u.v))))

(* one pass of the loop (lines 229-263): the new value of cube[i] *)
transform_entry(obj, i, u) ==
    LET prior == obj.priors[i]
        lo == obj.fit_limits[i].lo
        hi == obj.fit_limits[i].hi
    IN  IF prior = UNIFORM
        THEN Entry(Flt(float_add(lo, float_mul(float_sub(hi, lo), u.v))))
        ELSE IF prior \in {Word("log_10"), Word("log_e")}
        THEN IF lo = 0 THEN EntryRaises("ZeroDivisionError")
             ELSE Entry(Transformed(prior, lo, hi, u, None, None))
        ELSE IF prior = Word("pow_10")
        THEN Entry(Transformed(prior, lo, hi, u, None, None))
        ELSE IF prior = Word("1/x")
        THEN IF hi = 0 \/ lo = 0 \/ (hi = -lo /\ u.v = 5)
             THEN EntryRaises("ZeroDivisionError")
             ELSE Entry(Transformed(prior, lo, hi, u, None, None))
        ELSE IF prior = Word("1/x^2")
        THEN IF hi = 0 \/ lo = 0 THEN EntryRaises("ZeroDivisionError")
             ELSE Entry(Transformed(prior, lo, hi, u, None, None))
        ELSE IF prior = Word("Gaussian")
        THEN With(gaussian_hyperparameters(obj, obj.fit_params[i]), LAMBDA hyper :
                IF hyper.exc # "none" THEN EntryRaises(hyper.exc)
                ELSE IF ~IsNumber(hyper.mu) \/ ~IsNumber(hyper.sigma)
                THEN EntryRaises("TypeError")
                ELSE Entry(Transformed(prior, lo, hi, u, hyper.mu, hyper.sigma)))
        ELSE Entry(u)

(* the loop over the free parameters, writing into the caller's array; an  *)
(* exception leaves the entries written so far                             *)
RECURSIVE transform_from(_, _, _)
transform_from(obj, cube, i) ==
    IF i > obj.ndim THEN [cube |-> cube, exc |-> "none", raised_at |-> 0]
    ELSE With(transform_entry(obj, i, cube[i]), LAMBDA entry :
            IF entry.exc # "none" THEN [cube |-> cube, exc |-> entry.exc, raised_at |-> i]
            ELSE transform_from(obj, [cube EXCEPT ![i] = entry.val], i + 1))

(* the caller's array after the call, and the value returned (line 265) *)
prior_transform(obj, cube) ==
    With(transform_from(obj, cube, 1), LAMBDA done :
        [cube |-> done.cube, exc |-> done.exc, raised_at |-> done.raised_at,
         ret |-> IF done.exc = "none" THEN Array(done.cube) ELSE None])

---------------------------------------------------------------------------
(* numpy arrays: a vector is Array(v); a matrix carries its shape and its  *)
(* rows                                                                    *)

Zeros(n) == Array([i \in 1..n |-> 0])
Matrix(n, m, rows) == [t |-> "array", shape |-> <<n, m>>, v |-> rows]
Zeros2(n, m) == Matrix(n, m, [i \in 1..n |-> [j \in 1..m |-> 0]])
Ones2(n, m) == Matrix(n, m, [i \in 1..n |-> [j \in 1..m |-> 10]])

(* a[i] = x, a[i,:] = row and a[:,i] = col *)
SetAt(a, i, x) == [a EXCEPT !.v[i] = x]
SetRow(a, i, row) == [a EXCEPT !.v[i] = row]
SetCol(a, i, col) == [a EXCEPT !.v = [r \in 1..a.shape[1] |-> [a.v[r] EXCEPT ![i] = col[r]]]]

Min(a, b) == IF a <= b THEN a ELSE b

---------------------------------------------------------------------------
(* Fit.load_posterior *)

(* np.loadtxt(...)[:,:-1]: loadtxt squeezes a table of fewer than two rows *)
(* or of a single column to one dimension, which the two-index slice then  *)
(* rejects; a missing file is an IOError                                    *)
loadtxt_samples(file) ==
    IF file = None THEN [exc |-> "IOError", samples |-> None]
    ELSE IF Len(file.rows) < 2 \/ Len(file.rows[1]) < 2
    THEN [exc |-> "IndexError", samples |-> None]
    ELSE [exc |-> "none",
          samples |-> Matrix(Len(file.rows), Len(file.rows[1]) - 1,
                          [i \in 1..Len(file.rows) |->
                              SubSeq(file.rows[i], 1, Len(file.rows[i]) - 1)])]

load_posterior(obj, file) ==
    IF obj.posterior.samples # Unset THEN Returns(obj, None)
    ELSE With(loadtxt_samples(file), LAMBDA read :
        IF read.exc # "none" THEN Outcome(obj, None, read.exc, 0, 0, 1)
        ELSE Outcome(
                [obj EXCEPT !.posterior.samples = read.samples,
                            !.posterior.columns =
                                [i \in 1..Min(Len(obj.fit_params), read.samples.shape[2]) |->
                                    [key |-> obj.fit_params[i], col |-> i]]],
                None,
                IF Len(obj.fit_params) > read.samples.shape[2] THEN "IndexError" ELSE "none",
                0, 0, 1))

---------------------------------------------------------------------------
(* Fit.get_post_info *)

(* lines 393-419: the arrays of the derived quantities, one slot a sample *)
allocate_store(obj, nsamples) ==
    [obj EXCEPT !.posterior =
        [@ EXCEPT
            !.sfh = Zeros2(nsamples, Len(Model_sfh_ages(obj.Model))),
            !.sfr = Zeros(nsamples),
            !.tmw = Zeros(nsamples),
            !.UVJ = Zeros2(3, nsamples),
            !.living_stellar_mass =
                [total |-> Zeros(nsamples),
                 components |-> [c \in 1..Len(Model_sfh_components(obj.Model)) |->
                                    Item(Model_sfh_components(obj.Model)[c], Zeros(nsamples))]],
            !.photometry = IF obj.Galaxy.photometry_exists
                           THEN Zeros2(obj.Galaxy.n_phot, nsamples) ELSE @,
            !.spectrum = IF obj.Galaxy.spectrum_exists
                         THEN Zeros2(Len(Model_spectrum(obj.Model)), nsamples) ELSE @,
            !.polynomial = IF obj.Galaxy.spectrum_exists
                           THEN Ones2(Len(Model_spectrum(obj.Model)), nsamples) ELSE @,
            !.spectrum_full = Zeros2(Len(Model_spectrum_full(obj.Model)), nsamples)]]

(* line 426: the mass-weighted age, counted back from the age of the       *)
(* Universe at the model's redshift                                        *)
mass_weighted_age(Model, redshift) ==
    LET sfr == Model_sfh_sfr(Model)
        ages == Model_sfh_ages(Model)
        widths == Model_sfh_age_widths(Model)
    IN  age_at_z(redshift)
        - (SumSeq([b \in 1..Len(sfr) |-> sfr[b] * ages[b] * widths[b]])
             \div SumSeq([b \in 1..Len(sfr) |-> sfr[b] * widths[b]]))

(* lines 424-425 *)
record_sfh(obj, i) ==
    [obj EXCEPT !.posterior.sfh = SetRow(@, i, Model_sfh_sfr(obj.Model)),
                !.posterior.sfr = SetAt(@, i, Model_sfh_sfr(obj.Model)[1])]

(* lines 426-446 *)
record_derived(obj, i) ==
    [obj EXCEPT !.posterior =
        [@ EXCEPT
            !.tmw = SetAt(@, i, mass_weighted_age(obj.Model,
                                    DictGet(obj.model_components, <<"redshift">>).v)),
            !.living_stellar_mass =
                [total |-> SetAt(@.total, i, Model_living_stellar_mass_total(obj.Model)),
                 components |-> [c \in 1..Len(@.components) |->
                                    Item(@.components[c].key,
                                         SetAt(@.components[c].val, i,
                                               Model_living_stellar_mass(obj.Model, @.components[c].key)))]],
            !.UVJ = IF obj.Model.filtlist # None
                    THEN SetCol(@, i, Model_get_restframe_UVJ(obj.Model)) ELSE @,
            !.photometry = IF obj.Model.filtlist # None
                           THEN SetCol(@, i, Model_photometry(obj.Model, obj.Galaxy.n_phot)) ELSE @,
            !.spectrum_full = SetCol(@, i, Model_spectrum_full(obj.Model)),
            !.spectrum = IF obj.Model.output_specwavs # None
                         THEN SetCol(@, i, [j \in 1..Len(Model_spectrum(obj.Model)) |->
                                               Model_spectrum(obj.Model)[j].flux])
                         ELSE @]]

(* one pass of the loop body, after get_model has updated the model *)
record_sample(obj, i) ==
    With(record_sfh(obj, i), LAMBDA o :
        IF ~DictHas(o.model_components, <<"redshift">>) THEN [obj |-> o, exc |-> "KeyError"]
        ELSE IF ~IsNumber(DictGet(o.model_components, <<"redshift">>))
        THEN [obj |-> o, exc |-> "TypeError"]
        ELSE [obj |-> record_derived(o, i), exc |-> "none"])

(* lines 421-446: every stored sample goes through get_model in turn *)
RECURSIVE replay(_, _, _)
replay(acc, i, nsamples) ==
    IF acc.exc # "none" \/ i > nsamples THEN acc
    ELSE With(get_model(acc.obj, Array(acc.obj.posterior.samples.v[i])), LAMBDA got :
            IF got.exc # "none"
            THEN [acc EXCEPT !.exc = got.exc, !.adapter_calls = @ + 1]
            ELSE With(record_sample(got.obj, i), LAMBDA rec :
                    replay(Outcome(rec.obj, None, rec.exc, acc.built + got.built,
                                   acc.adapter_calls + 1, acc.file_reads),
                           i + 1, nsamples)))

get_post_info(obj, file) ==
    IF obj.posterior.sfh # Unset THEN Returns(obj, None)
    ELSE With(load_posterior(obj, file), LAMBDA loaded :
            IF loaded.exc # "none" THEN loaded
            ELSE IF loaded.obj.Model = None THEN [loaded EXCEPT !.exc = "AttributeError"]
            ELSE With(loaded.obj.posterior.samples.shape[1], LAMBDA nsamples :
                    replay([loaded EXCEPT !.obj = allocate_store(loaded.obj, nsamples)],
                           1, nsamples)))

---------------------------------------------------------------------------
(* Fit.fit *)

(* pmn.run: the sampler calls get_lnprob on the vectors of its trace, one  *)
(* after the other, on the same instance; an exception leaves the run      *)
RECURSIVE run_sampler(_, _, _)
run_sampler(acc, trace, i) ==
    IF acc.exc # "none" \/ i > Len(trace) THEN acc
    ELSE With(get_lnprob(acc.obj, trace[i]), LAMBDA out :
            run_sampler([obj |-> out.obj, exc |-> out.exc,
                         built |-> acc.built + out.built,
                         adapter_calls |-> acc.adapter_calls + out.adapter_calls,
                         lnprobs |-> Append(acc.lnprobs, out.ret)],
                        trace, i + 1))

(* <ID>-post_equal_weights.dat: nrows vectors of the trace, each followed  *)
(* by its log-probability                                                  *)
post_equal_weights(trace, lnprobs, nrows) ==
    [rows |-> [r \in 1..nrows |->
                  Append(trace[((r - 1) % Len(trace)) + 1].v,
                         lnprobs[((r - 1) % Len(trace)) + 1].v)]]

(* a.get_best_fit()["parameters"]: the vector of the highest log-probability *)
get_best_fit(trace, lnprobs) ==
    trace[CHOOSE i \in 1..Len(trace) :
            /\ \A j \in 1..Len(trace) : lnprobs[j].v <= lnprobs[i].v
            /\ \A j \in 1..(i - 1) : lnprobs[j].v < lnprobs[i].v]

(* s["marginals"][j]["1sigma"]: the range of parameter j over the trace *)
one_sigma(trace, j) ==
    Tup(CHOOSE lo \in {trace[k].v[j] : k \in 1..Len(trace)} :
            \A k \in 1..Len(trace) : lo <= trace[k].v[j],
        CHOOSE hi \in {trace[k].v[j] : k \in 1..Len(trace)} :
            \A k \in 1..Len(trace) : hi >= trace[k].v[j])

(* lines 186-197: what the analyzer reports; the evidence is taken to be   *)
(* the highest log-probability of the run                                  *)
read_stats(obj, trace, lnprobs, median) ==
    [obj EXCEPT
        !.posterior_median = median,
        !.conf_int = [j \in 1..obj.ndim |-> one_sigma(trace, j)],
        !.global_log_evidence = get_best_fit(lnprobs, lnprobs),
        !.global_log_evidence_err = Flt(0),
        !.best_fit_params = get_best_fit(trace, lnprobs)]

(* the data points counted by lines 207 and 211 only *)
degrees_of_freedom_spectrum_only(obj) ==
    (-obj.ndim) + (IF obj.Galaxy.spectrum_exists THEN Len(galaxy_spectrum(obj.Galaxy)) ELSE 0)

(* lines 204, 207 and 211 *)
degrees_of_freedom(obj) ==
    (-obj.ndim)
    + (IF obj.Galaxy.spectrum_exists THEN Len(galaxy_spectrum(obj.Galaxy)) ELSE 0)
    + (IF obj.Galaxy.photometry_exists THEN Len(galaxy_photometry(obj.Galaxy)) ELSE 0)

(* lines 202, 206 and 210: a sum that takes in a numpy float is one *)
total_chisq(obj) ==
    [v |-> (IF obj.Galaxy.spectrum_exists THEN obj.chisq_spec.v ELSE 0)
           + (IF obj.Galaxy.photometry_exists THEN obj.chisq_phot.v ELSE 0),
     np |-> \/ obj.Galaxy.spectrum_exists /\ obj.chisq_spec.np
            \/ obj.Galaxy.photometry_exists /\ obj.chisq_phot.np]

(* line 214: min_chisq/float(ndof). Dividing a numpy float by zero gives   *)
(* inf or nan, dividing a Python float by zero raises                      *)
reduced_chisq(min_chisq, ndof) ==
    IF ndof # 0 THEN [exc |-> "none", val |-> Flt(min_chisq.v \div ndof)]
    ELSE IF ~min_chisq.np THEN [exc |-> "ZeroDivisionError", val |-> Flt(0)]
    ELSE IF min_chisq.v = 0 THEN [exc |-> "none", val |-> [t |-> "float", nan |-> TRUE]]
    ELSE [exc |-> "none", val |-> [t |-> "float", inf |-> TRUE]]

(* lines 202-214 *)
goodness_of_fit(obj) ==
    With(reduced_chisq(total_chisq(obj), degrees_of_freedom(obj)), LAMBDA red :
        [obj |-> [obj EXCEPT !.min_chisq = total_chisq(obj),
                             !.ndof = IntV(degrees_of_freedom(obj)),
                             !.min_chisq_red = red.val],
         exc |-> red.exc])

(* the outcome of fit: that of a call, the sample file afterwards and the  *)
(* outcome of the get_post_info call of line 223 when fit gets there       *)
FitOutcome(out, file, written, reconstruction) ==
    [obj |-> out.obj, ret |-> None, exc |-> out.exc, built |-> out.built,
     adapter_calls |-> out.adapter_calls, file_reads |-> out.file_reads,
     file |-> file, written |-> written, post_info |-> reconstruction]

(* lines 222-223 *)
fit_reconstruct(ran, obj, file) ==
    With(get_model(obj, obj.posterior_median), LAMBDA got :
        IF got.exc # "none"
        THEN FitOutcome(Outcome(obj, None, got.exc, ran.built, ran.adapter_calls + 1, 0),
                        file, TRUE, None)
        ELSE With(get_post_info(got.obj, file), LAMBDA post :
                FitOutcome(Outcome(post.obj, None, post.exc,
                                   ran.built + got.built + post.built,
                                   ran.adapter_calls + 1 + post.adapter_calls,
                                   post.file_reads),
                           file, TRUE,
                           [before |-> got.obj.posterior, out |-> post])))

(* lines 199-223, once the sampler has written its files *)
fit_analyse(ran, trace, nrows, median) ==
    With(post_equal_weights(trace, ran.lnprobs, nrows), LAMBDA file :
    With(get_lnprob(read_stats(ran.obj, trace, ran.lnprobs, median),
                    get_best_fit(trace, ran.lnprobs)), LAMBDA best :
        IF best.exc # "none"
        THEN FitOutcome(Outcome(best.obj, None, best.exc, ran.built, ran.adapter_calls + 1, 0),
                        file, TRUE, None)
        ELSE With(goodness_of_fit(best.obj), LAMBDA gof :
                IF gof.exc # "none"
                THEN FitOutcome(Outcome(gof.obj, None, gof.exc, ran.built, ran.adapter_calls + 1, 0),
                                file, TRUE, None)
                ELSE fit_reconstruct([ran EXCEPT !.adapter_calls = @ + 1], gof.obj, file))))

fit(obj, file, trace, nrows, median) ==
    With(run_sampler([obj |-> obj, exc |-> "none", built |-> 0, adapter_calls |-> 0,
                      lnprobs |-> <<>>], trace, 1), LAMBDA ran :
        IF ran.exc # "none"
        THEN FitOutcome(Outcome(ran.obj, None, ran.exc, ran.built, ran.adapter_calls, 0),
                        file, FALSE, None)
        ELSE fit_analyse(ran, trace, nrows, median))

---------------------------------------------------------------------------
(* Fit.plot_corner *)

(* what numpy's log10 gives where the logarithm has no value: -inf and nan, *)
(* two numbers below every sample value and every logarithm of one        *)
NEG_INF == -1000
NAN == -2000

(* log10 of a number of 1.0 to 9.9, to the nearest tenth *)
log10_of_mantissa(v) ==
    IF v < 12 THEN 0 ELSE IF v < 15 THEN 1 ELSE IF v < 18 THEN 2 ELSE IF v < 23 THEN 3
    ELSE IF v < 29 THEN 4 ELSE IF v < 36 THEN 5 ELSE IF v < 45 THEN 6 ELSE IF v < 57 THEN 7
    ELSE IF v < 71 THEN 8 ELSE IF v < 90 THEN 9 ELSE 10

RECURSIVE log10_of_positive(_)
log10_of_positive(v) ==
    IF v >= 100 THEN 10 + log10_of_positive(v \div 10)
    ELSE IF v < 10 THEN log10_of_positive(v * 10) - 10
    ELSE log10_of_mantissa(v)

np_log10(x) ==
    IF x = NAN \/ x < 0 THEN NAN
    ELSE IF x = 0 THEN NEG_INF
    ELSE log10_of_positive(x)

(* line 643, for the columns of params_tolog that the sample table has:    *)
(* the column is replaced, in the table itself, by its logarithm           *)
RECURSIVE log_columns(_, _)
log_columns(samples, params_tolog) ==
    IF params_tolog = {} THEN samples
    ELSE LET i == CHOOSE c \in params_tolog : \A d \in params_tolog : c <= d
         IN  log_columns(SetCol(samples, i, [r \in 1..samples.shape[1] |-> np_log10(samples.v[r][i])]),
                         params_tolog \ {i})

(* plot_sfh_post (lines 700-742) reads the store and the configuration *)
plot_sfh_post(out) ==
    IF out.exc # "none" THEN out
    ELSE IF ~DictHas(out.obj.model_components, <<"redshift">>) THEN [out EXCEPT !.exc = "KeyError"]
    ELSE out

plot_corner(obj, file, param_names_tolog) ==
    IF obj.ndim > 0 /\ obj.posterior_median = Unset THEN Raises(obj, "AttributeError")
    ELSE IF obj.posterior.samples = Unset THEN Raises(obj, "KeyError")
    ELSE With([obj EXCEPT !.posterior.samples =
                    log_columns(@, {i \in 1..Min(obj.ndim, @.shape[2]) :
                                        obj.fit_params[i] \in param_names_tolog})], LAMBDA logged :
            IF obj.ndim > obj.posterior.samples.shape[2] THEN Raises(logged, "IndexError")
            ELSE plot_sfh_post(get_post_info(logged, file)))

---------------------------------------------------------------------------
(* The calls a session makes *)

GridSteps == 1

(* the values a free parameter takes: GridSteps + 1 points from its lower  *)
(* to its upper bound                                                      *)
grid(limits) == {limits.lo + ((k * (limits.hi - limits.lo)) \div GridSteps) : k \in 0..GridSteps}

ParamVectors(obj) ==
    {Array(x) : x \in {y \in [1..obj.ndim -> UNION {grid(obj.fit_limits[i]) : i \in 1..obj.ndim}] :
                          \A i \in 1..obj.ndim : y[i] \in grid(obj.fit_limits[i])}}

(* model_components dictionaries a caller may hand to get_model directly *)
ModelConfigurations ==
    { Dict(<< Item(<<"redshift">>, Flt(5)),
              Item(<<"burst">>, Dict(<< Item(TYPE, Word("burst")), Item(<<"age">>, Flt(20)),
                                        Item(<<"massformed">>, Flt(100)) >>)) >>),
      Dict(<< Item(<<"redshift">>, Flt(10)), Item(<<"hypspec">>, Flt(20)),
              Item(<<"burst">>, Dict(<< Item(TYPE, Word("burst")), Item(<<"age">>, Flt(150)),
                                        Item(<<"massformed">>, Flt(100)) >>)) >>),
      Dict(<< Item(<<"redshift">>, Flt(5)), Item(<<"hypspec">>, Flt(20)),
              Item(<<"burst">>, Dict(<< Item(TYPE, Word("burst")), Item(<<"age">>, Flt(20)),
                                        Item(<<"massformed">>, Flt(100)) >>)) >>) }

NoCall == [op |-> "none", arg |-> None, ret |-> None, exc |-> "none",
           built |-> 0, adapter_calls |-> 0, file_reads |-> 0]

Called(op, arg, out) ==
    [op |-> op, arg |-> arg, ret |-> out.ret, exc |-> out.exc,
     built |-> out.built, adapter_calls |-> out.adapter_calls, file_reads |-> out.file_reads]

Construct ==
    /\ self = Unset
    /\ self' = Fit_init(Galaxy, fit_arg, type_interned)
    /\ call' = [NoCall EXCEPT !.op = "__init__"]
    /\ models_built' = 0
    /\ UNCHANGED <<fit_arg, Galaxy, type_interned, sample_file, memo, post_info, new_samples>>

GetModelCall(params) ==
    /\ Constructed
    /\ \E param \in params :
        \E out \in {get_model(self, param)} :
              /\ self' = out.obj
              /\ call' = Called("get_model", param, out)
              /\ models_built' = models_built + out.built
    /\ UNCHANGED <<fit_arg, Galaxy, type_interned, sample_file, memo, post_info, new_samples>>

CallGetModelComponents ==
    /\ Constructed
    /\ \E param \in ParamVectors(self) \cup ModelConfigurations :
        \E made \in {get_model_components(self, param)} :
              /\ self' = [self EXCEPT !.fit_instructions = made.fit_instructions]
              /\ call' = [NoCall EXCEPT !.op = "get_model_components", !.arg = param,
                                        !.ret = IF made.exc = "none" THEN Dict(made.mc) ELSE None,
                                        !.exc = made.exc]
    /\ UNCHANGED <<fit_arg, Galaxy, type_interned, sample_file, models_built, memo,
                   post_info, new_samples>>

CallGetModel == GetModelCall(ParamVectors(self) \cup ModelConfigurations)

(* what a get_lnprob call left behind, for comparison with a later call *)
Snapshot(x, out) ==
    [t |-> "snapshot", arg |-> x, ret |-> out.ret,
     model_components |-> out.obj.model_components,
     chisq_spec |-> out.obj.chisq_spec.v, chisq_phot |-> out.obj.chisq_phot.v]

(* a get_lnprob call; with remembered, the observer may keep what a call   *)
(* with a vector left behind for the comparison                            *)
GetLnprobCall(remembered) ==
    /\ Constructed
    /\ \E x \in ParamVectors(self) \cup ModelConfigurations :
        \E out \in {get_lnprob(self, x)} :
              /\ self' = out.obj
              /\ call' = Called("get_lnprob", x, out)
              /\ models_built' = models_built + out.built
              /\ memo' \in {memo} \cup {Snapshot(x, out) : ok \in {out.exc} \cap {"none"} \cap remembered,
                                                               vector \in {x.t} \cap {"array"}}
    /\ UNCHANGED <<fit_arg, Galaxy, type_interned, sample_file, post_info, new_samples>>

CallGetLnprob == GetLnprobCall({"none"})

CallGetLnprobUnobserved == GetLnprobCall({})

(* the unit cubes the sampler hands to prior_transform: the corners of the *)
(* cube and its centre                                                     *)
UnitCubes(obj) == [1..obj.ndim -> {Flt(0), Flt(10)}] \cup {[i \in 1..obj.ndim |-> Flt(5)]}

CallPriorTransform ==
    /\ Constructed
    /\ \E cube \in UnitCubes(self) :
        \E out \in {prior_transform(self, cube)} :
              call' = [NoCall EXCEPT !.op = "prior_transform",
                                     !.arg = [t |-> "cube", before |-> cube, after |-> out.cube,
                                             raised_at |-> out.raised_at],
                                     !.ret = out.ret, !.exc = out.exc]
    /\ UNCHANGED <<fit_arg, Galaxy, type_interned, sample_file, self, models_built, memo,
                   post_info, new_samples>>

(* the vectors a sampler run visits: every free parameter at the same      *)
(* step k of its grid                                                      *)
SampledVector(obj, k) ==
    Array([i \in 1..obj.ndim |->
              obj.fit_limits[i].lo + ((k * (obj.fit_limits[i].hi - obj.fit_limits[i].lo)) \div GridSteps)])

SampledVectors(obj) == {SampledVector(obj, k) : k \in 0..GridSteps}

MaxSamples == 2

(* a run of the sampler: the vectors it passes to get_lnprob, from one     *)
(* step of the grid onwards; each of them becomes a posterior sample       *)
SamplerTraces(obj) ==
    { [i \in 1..n |-> SampledVector(obj, (start + i - 1) % (GridSteps + 1))] :
        start \in 0..GridSteps, n \in 1..MaxSamples }

(* s["marginals"][j]["median"]: the middle one of the samples' values *)
marginal_median(trace, j) ==
    CHOOSE m \in {trace[k].v[j] : k \in 1..Len(trace)} :
        /\ 2 * Cardinality({k \in 1..Len(trace) : trace[k].v[j] < m}) < Len(trace)
        /\ 2 * Cardinality({k \in 1..Len(trace) : trace[k].v[j] <= m}) >= Len(trace)

posterior_median(obj, trace) == Array([j \in 1..obj.ndim |-> marginal_median(trace, j)])

CallGetModelSampled == GetModelCall(SampledVectors(self))

NoInvocation == [nth |-> "none"]

(* a get_post_info invocation: the first or a later one, whether samples   *)
(* had been written since the one before, the file it could read, the      *)
(* store before and after it, and what it did                              *)
Invocation(before, out, file, fresh) ==
    [nth |-> IF post_info.nth = "none" THEN "first" ELSE "later",
     new_samples |-> fresh, file |-> file,
     before |-> before, after |-> out.obj.posterior,
     exc |-> out.exc, adapter_calls |-> out.adapter_calls, file_reads |-> out.file_reads]

CallLoadPosterior ==
    /\ Constructed
    /\ \E out \in {load_posterior(self, sample_file)} :
          /\ self' = out.obj
          /\ call' = Called("load_posterior", None, out)
    /\ UNCHANGED <<fit_arg, Galaxy, type_interned, sample_file, models_built, memo,
                   post_info, new_samples>>

CallGetPostInfo ==
    /\ Constructed
    /\ \E out \in {get_post_info(self, sample_file)} :
          /\ self' = out.obj
          /\ call' = Called("get_post_info", None, out)
          /\ models_built' = models_built + out.built
          /\ post_info' = Invocation(self.posterior, out, sample_file, new_samples)
    /\ new_samples' = FALSE
    /\ UNCHANGED <<fit_arg, Galaxy, type_interned, sample_file, memo>>

CallFit ==
    /\ Constructed
    /\ \E trace \in SamplerTraces(self) :
        \E out \in {fit(self, sample_file, trace, Len(trace), posterior_median(self, trace))} :
              /\ self' = out.obj
              /\ call' = Called("fit", Array(trace), out)
              /\ models_built' = models_built + out.built
              /\ sample_file' = out.file
              /\ post_info' = IF out.post_info = None THEN post_info
                              ELSE Invocation(out.post_info.before, out.post_info.out, out.file, TRUE)
              /\ new_samples' = IF out.post_info # None THEN FALSE
                                ELSE IF out.written THEN TRUE ELSE new_samples
    /\ UNCHANGED <<fit_arg, Galaxy, type_interned, memo>>

(* plot_corner with no parameter, or the first free parameter, to be      *)
(* plotted on a logarithmic scale                                          *)
CallPlotCorner ==
    /\ Constructed
    /\ \E param_names_tolog \in {{}} \cup {{self.fit_params[i]} : i \in 1..Min(1, self.ndim)} :
        \E out \in {plot_corner(self, sample_file, param_names_tolog)} :
              /\ self' = out.obj
              /\ call' = [Called("plot_corner", None, out) EXCEPT
                              !.arg = [t |-> "names", names |-> param_names_tolog]]
              /\ models_built' = models_built + out.built
    /\ UNCHANGED <<fit_arg, Galaxy, type_interned, sample_file, memo, post_info, new_samples>>

---------------------------------------------------------------------------
(* Fit specifications the caller may pass *)

N(w) == <<w>>
Ref1(a) == StrV(<< <<a>> >>)
Ref2(a, b) == StrV(<< <<a>>, <<b>> >>)

RedshiftFragments ==
    { <<>>,
      << Item(N("redshift"), Flt(5)) >>,
      << Item(N("redshift"), IntV(1)) >>,
      << Item(N("redshift"), Tup(0, 10)) >>,
      << Item(N("redshift"), Tup(0, 10)), Item(<<"redshift", PRIOR>>, Word("log_10")) >>,
      << Item(N("redshift"), Tup(0, 10)), Item(<<"redshift", PRIOR>>, Word("Gaussian")),
         Item(<<"redshift", PRIOR, "mu">>, Flt(5)), Item(<<"redshift", PRIOR, "sigma">>, Flt(1)) >>,
      << Item(N("redshift"), Flt(5)), Item(N("zlink"), Ref1("redshift")) >>,
      << Item(N("redshift"), Tup(5, 5)) >>,
      << Item(N("redshift"), Flt(5)), Item(N("veldisp"), Tup(-60, 199)) >> }

DUST_TYPE == Item(TYPE, Word("Calzetti"))

DustFragments ==
    { <<>>,
      << Item(N("dust"), Dict(<< Item(N("Av"), Tup(0, 20)), Item(<<"Av", PRIOR>>, UNIFORM) >>)) >>,
      << Item(N("dust"), Dict(<< DUST_TYPE, Item(N("Av"), Tup(0, 20)), Item(<<"Av", PRIOR>>, UNIFORM) >>)) >>,
      << Item(N("dust"), Dict(<< DUST_TYPE, Item(N("Av"), Tup(0, 20)) >>)) >>,
      << Item(N("dust"), Dict(<< DUST_TYPE, Item(N("Av"), Flt(10)) >>)) >>,
      << Item(N("dust"), Dict(<< DUST_TYPE, Item(N("Av"), IntV(1)) >>)) >>,
      << Item(N("dust"), Dict(<< DUST_TYPE, Item(N("Av"), Ref1("redshift")) >>)) >>,
      << Item(N("dust"), Dict(<< DUST_TYPE, Item(N("Av"), Ref2("burst", "age")) >>)) >>,
      << Item(N("dust"), Dict(<< DUST_TYPE, Item(N("Av"), Tup(0, 20)), Item(<<"Av", PRIOR>>, Word("Gaussian")),
                                 Item(<<"Av", PRIOR, "mu">>, Flt(10)), Item(<<"Av", PRIOR, "sigma">>, Flt(5)) >>)) >>,
      << Item(N("dust"), Dict(<< DUST_TYPE, Item(N("Av"), Tup(0, 20)), Item(<<"Av", PRIOR>>, Word("unifrom")) >>)) >> }

BURST_TYPE == Item(TYPE, Word("burst"))

BurstFragments ==
    { <<>>,
      << Item(N("burst"), Dict(<< BURST_TYPE, Item(N("age"), Tup(10, 150)), Item(N("massformed"), Flt(100)) >>)) >>,
      << Item(N("burst"), Dict(<< BURST_TYPE, Item(N("age"), HUBBLE_TIME), Item(N("massformed"), Tup(10, 150)) >>)) >>,
      << Item(N("burst"), Dict(<< BURST_TYPE, Item(N("age"), Tup(10, 150)), Item(<<"age", PRIOR>>, Word("log_10")),
                                  Item(N("massformed"), Tup(10, 150)) >>)) >> }

EXAMPLE ==
    << Item(N("dust"), Dict(<< Item(N("Av"), Tup(0, 20)), Item(<<"Av", PRIOR>>, UNIFORM) >>)),
       Item(N("redshift"), Flt(5)) >>

(* every specification assembled from one fragment of each kind, the dust  *)
(* component before or after the redshift entry                            *)
AllInstructions ==
    UNION { { d \o r \o b, r \o b \o d } :
              <<d, r, b>> \in DustFragments \X RedshiftFragments \X BurstFragments }

Galaxies ==
    { [spectrum_exists |-> FALSE, photometry_exists |-> TRUE, n_spec |-> 0, n_phot |-> 50],
      [spectrum_exists |-> TRUE, photometry_exists |-> FALSE, n_spec |-> 2, n_phot |-> 0],
      [spectrum_exists |-> TRUE, photometry_exists |-> TRUE, n_spec |-> 2, n_phot |-> 3] }

BURST == Dict(<< BURST_TYPE, Item(N("age"), Tup(10, 150)), Item(N("massformed"), Flt(100)) >>)

(* the specifications of the sessions explored call by call *)
SessionInstructions ==
    { EXAMPLE,
      << Item(N("redshift"), Tup(0, 10)), Item(N("burst"), BURST) >>,
      << Item(N("redshift"), Tup(0, 10)), Item(N("burst"), BURST),
         Item(N("dust"), Dict(<< DUST_TYPE, Item(N("Av"), Ref2("burst", "age")) >>)) >>,
      << Item(N("redshift"), Flt(5)),
         Item(N("dust"), Dict(<< DUST_TYPE, Item(N("Av"), Ref1("redshift")) >>)),
         Item(N("burst"), BURST) >>,
      << Item(N("burst"), BURST) >>,
      << Item(N("redshift"), Flt(5)), Item(N("hypspec"), Flt(20)), Item(N("burst"), BURST) >> }

---------------------------------------------------------------------------
(* A session of Model Adapter and Likelihood Evaluator calls *)

Init ==
    /\ fit_arg \in SessionInstructions
    /\ Galaxy \in Galaxies
    /\ type_interned \in BOOLEAN
    /\ sample_file = None
    /\ self = Unset
    /\ call = NoCall
    /\ models_built = 0
    /\ memo = None
    /\ post_info = NoInvocation
    /\ new_samples = FALSE

Next == Construct \/ CallGetModel \/ CallGetLnprob

Spec == Init /\ [][Next]_vars

---------------------------------------------------------------------------
(* Schema resolution alone: the constructor applied to every specification *)

InitSchema ==
    /\ fit_arg \in AllInstructions
    /\ Galaxy \in Galaxies
    /\ type_interned \in BOOLEAN
    /\ sample_file = None
    /\ self = Unset
    /\ call = NoCall
    /\ models_built = 0
    /\ memo = None
    /\ post_info = NoInvocation
    /\ new_samples = FALSE

NextSchema == Construct \/ CallPriorTransform

SpecSchema == InitSchema /\ [][NextSchema]_vars

---------------------------------------------------------------------------
(* A session of fits and posterior reconstructions *)

FIVE_FREE ==
    << Item(N("redshift"), Tup(0, 10)),
       Item(N("burst"), Dict(<< BURST_TYPE, Item(N("age"), Tup(10, 150)),
                                Item(N("massformed"), Tup(10, 150)) >>)),
       Item(N("dust"), Dict(<< DUST_TYPE, Item(N("Av"), Tup(0, 20)), Item(N("eta"), Tup(10, 20)) >>)) >>

PosteriorInstructions ==
    { EXAMPLE,
      << Item(N("redshift"), Tup(0, 10)), Item(N("burst"), BURST) >>,
      << Item(N("burst"), BURST) >>,
      << Item(N("redshift"), Flt(5)),
         Item(N("dust"), Dict(<< DUST_TYPE, Item(N("Av"), Ref1("redshift")) >>)),
         Item(N("burst"), BURST) >> }

(* the sample file an earlier run of the same fit may have left behind *)
PersistedFiles(obj) ==
    {None} \cup
    { [rows |-> [r \in 1..n |-> Append(SampledVector(obj, (r - 1) % (GridSteps + 1)).v, 0)]] :
        n \in 1..MaxSamples }

(* the fits of the sessions: five free parameters on the galaxy of fifty   *)
(* photometric points, the other specifications on the smaller galaxies    *)
PosteriorFits ==
    { <<FIVE_FREE, g>> : g \in {h \in Galaxies : h.n_phot = 50} }
    \cup (PosteriorInstructions \X {h \in Galaxies : h.n_phot < 50})

InitPosterior ==
    /\ \E session \in PosteriorFits : fit_arg = session[1] /\ Galaxy = session[2]
    /\ type_interned \in BOOLEAN
    /\ sample_file \in PersistedFiles(Fit_init(Galaxy, fit_arg, type_interned))
    /\ self = Unset
    /\ call = NoCall
    /\ models_built = 0
    /\ memo = None
    /\ post_info = NoInvocation
    /\ new_samples = FALSE

NextPosterior ==
    Construct \/ CallGetModelSampled \/ CallLoadPosterior \/ CallGetPostInfo \/ CallFit

SpecPosterior == InitPosterior /\ [][NextPosterior]_vars

---------------------------------------------------------------------------
(* A session of every call that is to leave the schema alone *)

YOUNG_BURST == Dict(<< BURST_TYPE, Item(N("age"), Flt(20)), Item(N("massformed"), Flt(100)) >>)

GAUSSIAN_TOP ==
    << Item(N("redshift"), Tup(0, 10)), Item(<<"redshift", PRIOR>>, Word("Gaussian")),
       Item(<<"redshift", PRIOR, "mu">>, Flt(5)), Item(<<"redshift", PRIOR, "sigma">>, Flt(1)),
       Item(N("burst"), YOUNG_BURST) >>

GAUSSIAN_DUST ==
    << Item(N("redshift"), Flt(5)),
       Item(N("dust"), Dict(<< DUST_TYPE, Item(N("Av"), Tup(0, 20)),
                               Item(<<"Av", PRIOR>>, Word("Gaussian")),
                               Item(<<"Av", PRIOR, "mu">>, Flt(10)),
                               Item(<<"Av", PRIOR, "sigma">>, Flt(5)),
                               Item(N("eta"), Ref2("burst", "age")) >>)),
       Item(N("burst"), YOUNG_BURST) >>

CallInstructions == {GAUSSIAN_TOP, GAUSSIAN_DUST}

InitCalls ==
    /\ fit_arg \in CallInstructions
    /\ Galaxy \in {h \in Galaxies : h.spectrum_exists /\ h.photometry_exists}
    /\ type_interned \in BOOLEAN
    /\ sample_file \in PersistedFiles(Fit_init(Galaxy, fit_arg, type_interned))
    /\ self = Unset
    /\ call = NoCall
    /\ models_built = 0
    /\ memo = None
    /\ post_info = NoInvocation
    /\ new_samples = FALSE

NextCalls ==
    \/ Construct
    \/ CallPriorTransform
    \/ CallGetModelComponents
    \/ CallGetModel
    \/ CallGetLnprobUnobserved
    \/ CallLoadPosterior
    \/ CallGetPostInfo

SpecCalls == InitCalls /\ [][NextCalls]_vars

---------------------------------------------------------------------------
(* A session of fits, posterior reconstructions and corner plots *)

InitPlots ==
    /\ fit_arg \in {EXAMPLE, << Item(N("redshift"), Tup(0, 10)), Item(N("burst"), BURST) >>}
    /\ Galaxy \in {h \in Galaxies : h.spectrum_exists /\ h.photometry_exists}
    /\ type_interned \in BOOLEAN
    /\ sample_file \in PersistedFiles(Fit_init(Galaxy, fit_arg, type_interned))
    /\ self = Unset
    /\ call = NoCall
    /\ models_built = 0
    /\ memo = None
    /\ post_info = NoInvocation
    /\ new_samples = FALSE

NextPlots == NextPosterior \/ CallPlotCorner

SpecPlots == InitPlots /\ [][NextPlots]_vars

---------------------------------------------------------------------------
(* What a specification holds, read off the caller's dictionary *)

IsReserved(key, v) == key = TYPE \/ EndsWithPrior(key) \/ v = HUBBLE_TIME
IsScalar(v) == v.t \in {"tuple", "float", "int", "str"}

(* every leaf of a specification as [name, val], name its identity *)
AllLeaves(fi) ==
    {[name |-> <<fi[i].key>>, val |-> fi[i].val, key |-> fi[i].key] :
        i \in {k \in 1..Len(fi) : fi[k].val.t # "dict"}}
    \cup UNION {{[name |-> <<fi[i].key, fi[i].val.items[j].key>>,
                  val |-> fi[i].val.items[j].val, key |-> fi[i].val.items[j].key] :
                    j \in 1..Len(fi[i].val.items)} :
                i \in {k \in 1..Len(fi) : fi[k].val.t = "dict"}}

ScalarLeaves(fi) == {l \in AllLeaves(fi) : IsScalar(l.val) /\ ~IsReserved(l.key, l.val)}
BoundLeaves(fi) == {l \in AllLeaves(fi) : l.val.t = "tuple"}
TopNumericLeaves(fi) == {l \in AllLeaves(fi) : Len(l.name) = 1 /\ l.val.t \in {"float", "int"}}

FreeSet == Range(self.fit_params)
FixedSet == {self.fixed_params[i] : i \in {k \in 1..Len(self.fixed_params) : self.fixed_values[k].t # "str"}}
DependentSet == {self.fixed_params[i] : i \in {k \in 1..Len(self.fixed_params) : self.fixed_values[k].t = "str"}}

(* the value under the "<field>prior" key next to a parameter, None if there is none *)
AdjacentPrior(fi, name) ==
    LET siblings == IF Len(name) = 1 THEN fi ELSE DictGet(fi, name[1]).items
        prior_key == Append(name[Len(name)], PRIOR)
    IN  IF DictHas(siblings, prior_key) THEN DictGet(siblings, prior_key) ELSE None

(* C1: after schema resolution the free, fixed and dependent sets are      *)
(* pairwise disjoint and together hold every scalar leaf of the            *)
(* specification (bound pair, number or dependent string, at top level or  *)
(* in a component) other than the reserved "type", "...prior" and          *)
(* "hubble time" entries.                                                  *)
C1_SetsPartitionScalarLeaves ==
    Constructed =>
        /\ FreeSet \cap FixedSet = {}
        /\ FreeSet \cap DependentSet = {}
        /\ FixedSet \cap DependentSet = {}
        /\ \A l \in ScalarLeaves(fit_arg) : l.name \in FreeSet \cup FixedSet \cup DependentSet

(* C2: every bound-pair leaf becomes exactly one free parameter with that  *)
(* bound pair, every top-level numeric leaf one fixed parameter with that  *)
(* value, every free parameter's prior comes from the adjacent prior key,  *)
(* ndim is the number of free parameters; and the worked example resolves  *)
(* to free = ["dust:Av"] with (0.0, 2.0) and "uniform", fixed =            *)
(* ["redshift"] = 0.5, N = 1.                                              *)
C2_ResolutionOfLeaves ==
    Constructed =>
        /\ \A l \in BoundLeaves(fit_arg) :
              Cardinality({i \in 1..Len(self.fit_params) : self.fit_params[i] = l.name}) = 1
        /\ \A i \in 1..Len(self.fit_params) :
              [name |-> self.fit_params[i], val |-> self.fit_limits[i],
               key |-> self.fit_params[i][Len(self.fit_params[i])]] \in BoundLeaves(fit_arg)
        /\ \A l \in TopNumericLeaves(fit_arg) :
              Cardinality({i \in 1..Len(self.fixed_params) :
                              self.fixed_params[i] = l.name /\ self.fixed_values[i] = l.val}) = 1
        /\ \A i \in 1..Len(self.fit_params) :
              AdjacentPrior(fit_arg, self.fit_params[i]) # None
                  => self.priors[i] = AdjacentPrior(fit_arg, self.fit_params[i])
        /\ self.ndim = Cardinality(BoundLeaves(fit_arg))
        /\ fit_arg = EXAMPLE =>
              /\ self.fit_params = << <<N("dust"), N("Av")>> >>
              /\ self.fit_limits = << Tup(0, 20) >>
              /\ self.priors = << UNIFORM >>
              /\ self.fixed_params = << <<N("redshift")>> >>
              /\ self.fixed_values = << Flt(5) >>
              /\ self.ndim = 1

(* C3: fit_params, fit_limits and priors all have length ndim and are      *)
(* index-aligned; priors[i] is the value of the prior key adjacent to      *)
(* parameter i when there is one, and "uniform" with a printed warning     *)
(* (no error) when there is none.                                          *)
C3_OnePriorPerFreeParameter ==
    Constructed =>
        /\ Len(self.fit_params) = self.ndim
        /\ Len(self.fit_limits) = self.ndim
        /\ Len(self.priors) = self.ndim
        /\ call.op = "__init__" => call.exc = "none"
        /\ \A i \in 1..self.ndim :
              LET name == self.fit_params[i]
                  adjacent == AdjacentPrior(fit_arg, name)
                  bounds == IF Len(name) = 1 THEN DictGet(fit_arg, name[1])
                            ELSE DictGet(DictGet(fit_arg, name[1]).items, name[2])
              IN  /\ self.fit_limits[i] = bounds
                  /\ adjacent # None => self.priors[i] = adjacent /\ name \notin Range(self.stdout)
                  /\ adjacent = None => self.priors[i] = UNIFORM /\ name \in Range(self.stdout)

C3_Witness ==
    /\ Constructed
    /\ self.ndim >= 2
    /\ \E i, j \in 1..self.ndim :
          /\ AdjacentPrior(fit_arg, self.fit_params[i]) = Word("Gaussian")
          /\ self.priors[i] = Word("Gaussian")
          /\ AdjacentPrior(fit_arg, self.fit_params[j]) = None
          /\ self.priors[j] = UNIFORM

---------------------------------------------------------------------------
(* The Likelihood Evaluator and the Model Adapter *)

LnprobReturned == Constructed /\ call.op = "get_lnprob" /\ call.exc = "none"

CurrentMaxAge == Model_sfh_maxage(self.Model)
CurrentUniverseAge == age_at_z(DictGet(self.model_components, <<"redshift">>).v)

(* C4: get_lnprob returns the sentinel -9.99e99 whenever the model SFH's   *)
(* maximum age exceeds the age of the Universe at the configuration's      *)
(* redshift, whatever the chi-squared values are, and the chi-squared      *)
(* based log-probability only when maxage <= universe age.                 *)
C4_AgeVetoReturnsSentinel ==
    LnprobReturned =>
        /\ CurrentMaxAge > CurrentUniverseAge => call.ret = Flt(LNPROB_VETO)
        /\ call.ret # Flt(LNPROB_VETO) =>
              /\ CurrentMaxAge <= CurrentUniverseAge
              /\ call.ret = Flt(lnprob_value(self))

C4_Witness ==
    /\ LnprobReturned
    /\ CurrentMaxAge > CurrentUniverseAge
    /\ call.ret = Flt(LNPROB_VETO)
    /\ self.chisq_phot.np /\ self.chisq_phot.v > 0

(* the chi-squared values of the current forward model *)
ChisqSpecOfModel ==
    chi_squared(galaxy_spectrum(Galaxy), [j \in 1..Galaxy.n_spec |-> Model_spectrum(self.Model)[j].flux])
ChisqPhotOfModel ==
    chi_squared(galaxy_photometry(Galaxy), Model_photometry(self.Model, Galaxy.n_phot))

(* C5: after every get_lnprob(x), in any sequence of calls,                *)
(* model_components is the configuration for x and chisq_spec / chisq_phot *)
(* (for each data set that exists) are the chi-squared values of the model *)
(* for x, never values left by an earlier call.                            *)
C5_CachesOverwrittenOnEveryCall ==
    LnprobReturned =>
        /\ self.model_components = get_model_components(self, call.arg).mc
        /\ self.Model.components = self.model_components
        /\ Galaxy.spectrum_exists => self.chisq_spec.v = ChisqSpecOfModel
        /\ Galaxy.photometry_exists => self.chisq_phot.v = ChisqPhotOfModel

(* the value stored in a configuration at an identity of one or two segments *)
ValueAt(mc, name) ==
    IF Len(name) = 1 THEN DictGet(mc, name[1])
    ELSE DictGet(DictGet(mc, name[1]).items, name[2])

(* the dependent parameters of the caller's specification: the string      *)
(* leaves of its components that are not reserved                          *)
DependentLeaves(fi) ==
    {l \in AllLeaves(fi) : Len(l.name) = 2 /\ l.val.t = "str" /\ ~IsReserved(l.key, l.val)}

(* C6: when get_model is given a parameter vector, the call completes      *)
(* without error and every dependent parameter of the resulting            *)
(* configuration holds the value stored, after the free parameters were    *)
(* assigned, at the identity it names, be it of one segment ("redshift")   *)
(* or of two ("component:field").                                          *)
C6_DependentsCopyNamedValue ==
    (Constructed /\ type_interned /\ call.op = "get_model" /\ call.arg.t = "array") =>
        /\ call.exc = "none"
        /\ \A l \in DependentLeaves(fit_arg) :
              ValueAt(self.model_components, l.name) = ValueAt(self.model_components, l.val.s)

(* C7: two get_lnprob calls with the same vector leave equal               *)
(* configurations and equal cached chi-squared values and return the same  *)
(* log-probability, whatever calls with other vectors came in between.     *)
C7_RepeatedCallsAgree ==
    (LnprobReturned /\ memo # None /\ memo.arg = call.arg) =>
        /\ self.model_components = memo.model_components
        /\ self.chisq_spec.v = memo.chisq_spec
        /\ self.chisq_phot.v = memo.chisq_phot
        /\ call.ret = memo.ret

ModelOf(obj) == IF obj.t = "Fit" THEN obj.Model ELSE None

(* C8: the forward model is constructed at most once in a session: the     *)
(* first get_model call constructs it, every later one updates the         *)
(* existing instance in place, and Model never returns to None.            *)
C8_ModelConstructedOnce ==
    [][ /\ models_built' <= 1
        /\ ModelOf(self) # None => ModelOf(self') # None /\ models_built' = models_built
        /\ (Constructed /\ call'.op = "get_model" /\ call'.exc = "none") =>
              IF self.Model = None
              THEN call'.built = 1 /\ models_built' = 1 /\ self'.Model # None
              ELSE /\ call'.built = 0
                   /\ self'.Model = Model_update(self.Model, self'.model_components) ]_vars

C8_Witness ==
    /\ Constructed
    /\ models_built = 1
    /\ call.op = "get_model" /\ call.exc = "none" /\ call.built = 0
    /\ self.Model # None

---------------------------------------------------------------------------
(* The posterior store after a reconstruction *)

(* the posterior samples a sample file holds: its rows without the         *)
(* trailing column                                                         *)
SamplesOf(file) ==
    IF file = None THEN <<>>
    ELSE [r \in 1..Len(file.rows) |-> SubSeq(file.rows[r], 1, Len(file.rows[r]) - 1)]

(* the star formation history of the model of one sample *)
SfhOfSample(x) ==
    Model_sfh_sfr([components |-> get_model_components(self, Array(x)).mc])

(* the store holds the SFH of every sample of the file, one row a sample   *)
(* and one column an age bin, and every other derived array                *)
StoreFilled(store, file) ==
    /\ store.sfh # Unset
    /\ store.sfh.shape = <<Len(SamplesOf(file)), NumAgeBins>>
    /\ \A i \in 1..Len(SamplesOf(file)) :
          /\ get_model_components(self, Array(SamplesOf(file)[i])).exc = "none"
          /\ store.sfh.v[i] = SfhOfSample(SamplesOf(file)[i])
          /\ store.sfr.v[i] = SfhOfSample(SamplesOf(file)[i])[1]
    /\ store.sfr # Unset /\ store.tmw # Unset /\ store.UVJ # Unset
    /\ store.living_stellar_mass # Unset /\ store.spectrum_full # Unset
    /\ Galaxy.photometry_exists => store.photometry # Unset
    /\ Galaxy.spectrum_exists => store.spectrum # Unset
    /\ \A i \in 1..Len(SamplesOf(file)) :
          /\ store.tmw.v[i] # 0
          /\ \A w \in 1..NumModelWavs : store.spectrum_full.v[w][i] # 0

(* C9: get_post_info is idempotent. Where the sampler has left posterior   *)
(* samples, the first invocation fills the SFH array with one row for each *)
(* posterior sample and one column for each age bin, together with every   *)
(* other derived array; a later invocation with no new samples leaves      *)
(* every entry of the posterior store as it was, reads no sample file and  *)
(* makes no get_model call.                                                *)
C9_ReconstructionIdempotent ==
    /\ (post_info.nth = "first" /\ post_info.file # None) =>
            StoreFilled(post_info.after, post_info.file)
    /\ (post_info.nth = "later" /\ ~post_info.new_samples) =>
            /\ post_info.after = post_info.before
            /\ post_info.file_reads = 0
            /\ post_info.adapter_calls = 0

---------------------------------------------------------------------------
(* The goodness of fit *)

DataPoints ==
    (IF Galaxy.spectrum_exists THEN Galaxy.n_spec ELSE 0)
    + (IF Galaxy.photometry_exists THEN Galaxy.n_phot ELSE 0)

(* N: the (lower, upper) leaves of the caller's specification *)
NumFree == Cardinality(BoundLeaves(fit_arg))

(* q is a divided by n, to the last digit kept *)
IsQuotient(q, a, n) ==
    IF n > 0 THEN q * n <= a /\ a < (q + 1) * n
    ELSE q * n >= a /\ a > (q + 1) * n

(* C10: once fit() has worked out the goodness of fit, ndof is the number  *)
(* of spectroscopic points (if there is a spectrum) plus the number of     *)
(* photometric points (if there is photometry) minus N, and min_chisq_red  *)
(* is min_chisq divided by ndof; with 50 photometric points, no spectrum   *)
(* and N = 5, ndof is 45.                                                  *)
C10_DegreesOfFreedom ==
    (Constructed /\ self.ndof # Unset) =>
        /\ self.ndof.v = DataPoints - NumFree
        /\ self.ndof.v # 0 => IsQuotient(self.min_chisq_red.v, self.min_chisq.v, self.ndof.v)
        /\ (Galaxy.n_phot = 50 /\ ~Galaxy.spectrum_exists /\ NumFree = 5) => self.ndof.v = 45

C10_Witness ==
    /\ Constructed /\ call.op = "fit" /\ call.exc = "none"
    /\ Galaxy.n_phot = 50 /\ ~Galaxy.spectrum_exists /\ NumFree = 5
    /\ self.ndof = IntV(45)
    /\ self.min_chisq.v > 0
    /\ IsQuotient(self.min_chisq_red.v, self.min_chisq.v, 45)

---------------------------------------------------------------------------
(* Prior Transform *)

PriorTransformCalled == Constructed /\ call.op = "prior_transform"
PriorTransformReturned == PriorTransformCalled /\ call.exc = "none"

(* the free parameters with a uniform prior *)
UniformIndices == {i \in 1..self.ndim : self.priors[i] = UNIFORM}

(* C11: for every free parameter with a uniform prior and bounds (lo, hi), *)
(* whatever the other entries of the cube, prior_transform writes exactly  *)
(* lo at the parameter's index when the entry there is 0 and exactly hi    *)
(* when it is 1, and the array returned is the caller's array.             *)
C11_UniformEndpointsExact ==
    PriorTransformReturned =>
        /\ call.ret = Array(call.arg.after)
        /\ \A i \in UniformIndices :
            /\ call.arg.before[i] = Flt(0) => call.arg.after[i] = Flt(self.fit_limits[i].lo)
            /\ call.arg.before[i] = Flt(10) => call.arg.after[i] = Flt(self.fit_limits[i].hi)

(* the free parameters of the caller's specification whose bounds coincide *)
DegenerateBounds(fi) == {l \in BoundLeaves(fi) : l.val.lo = l.val.hi}

(* C12: a specification with a free parameter whose bounds have lo = hi is *)
(* rejected by schema resolution: no Fit object is constructed from it, so *)
(* that no prior_transform or get_lnprob call can follow.                  *)
C12_DegenerateBoundsRejected ==
    DegenerateBounds(fit_arg) # {} => ~Constructed

(* the prior families prior_transform has a branch for (lines 231-248) *)
KnownFamilies ==
    {UNIFORM, Word("log_10"), Word("log_e"), Word("pow_10"), Word("1/x"), Word("1/x^2"),
     Word("Gaussian")}

UnknownIndices == {i \in 1..self.ndim : self.priors[i] \notin KnownFamilies}

---------------------------------------------------------------------------
(* The schema after construction *)

Schema(obj) ==
    [fit_instructions |-> obj.fit_instructions, fit_params |-> obj.fit_params,
     fit_limits |-> obj.fit_limits, fixed_params |-> obj.fixed_params,
     fixed_values |-> obj.fixed_values, priors |-> obj.priors, ndim |-> obj.ndim]

(* C15: once the Fit object is constructed, no prior_transform,            *)
(* get_model_components, get_model, get_lnprob, load_posterior or          *)
(* get_post_info call changes fit_instructions, fit_params, fit_limits,    *)
(* fixed_params, fixed_values, priors or ndim; the caller's dictionary is  *)
(* not modified, and fit_instructions stays the copy of it made by the     *)
(* constructor, every vector being merged into a fresh copy.               *)
C15_SchemaFrozen ==
    [][Constructed => /\ Schema(self') = Schema(self)
                      /\ fit_arg' = fit_arg
                      /\ self'.fit_instructions = fit_arg']_vars

(* a vector has been merged: the configuration built differs from the      *)
(* schema's dictionary, after a posterior reconstruction                   *)
C15_Witness ==
    /\ Constructed
    /\ call.op = "get_model" /\ call.exc = "none" /\ call.arg.t = "array"
    /\ self.model_components # self.fit_instructions
    /\ self.posterior.sfh # Unset
    /\ self.fit_instructions = fit_arg

---------------------------------------------------------------------------
(* Hyperparameters of a Gaussian prior *)

(* the "<field>priormu" and "<field>priorsigma" entries of a specification *)
(* that hold a float                                                       *)
HyperparameterLeaves(fi) ==
    {l \in AllLeaves(fi) : /\ Len(l.key) = 3 /\ l.key[2] = PRIOR /\ l.key[3] \in {"mu", "sigma"}
                           /\ l.val.t = "float"}

BuiltFromVector ==
    /\ call.op \in {"get_model", "get_lnprob"}
    /\ call.arg.t = "array"
    /\ call.exc = "none"

(* C19: schema resolution does not skip the float-valued "<field>priormu"  *)
(* and "<field>priorsigma" keys, at top level or inside a component: each  *)
(* is recorded in fixed_params under its name with its value, and it is    *)
(* present with that value in every configuration built from a vector and  *)
(* handed to the forward model.                                            *)
C19_HyperparametersKeptAsFixed ==
    Constructed =>
        \A l \in HyperparameterLeaves(fit_arg) :
            /\ \E k \in 1..Len(self.fixed_params) :
                    self.fixed_params[k] = l.name /\ self.fixed_values[k] = l.val
            /\ BuiltFromVector =>
                    /\ ValueAt(self.model_components, l.name) = l.val
                    /\ ValueAt(self.Model.components, l.name) = l.val

(* a configuration built from a vector under a specification with the     *)
(* hyperparameters inside a component                                      *)
C19_Witness ==
    /\ Constructed
    /\ BuiltFromVector
    /\ call.op = "get_lnprob"
    /\ \E l \in HyperparameterLeaves(fit_arg) :
            Len(l.name) = 2 /\ l.name \in Range(self.fixed_params)

---------------------------------------------------------------------------
(* Error hyperparameters *)

(* the hyperparameter a configuration asks for: its value under the key    *)
(* when the key is present, 1.0 otherwise                                  *)
Hyperparameter(mc, key) == IF DictHas(mc, key) THEN DictGet(mc, key).v ELSE 10

PassedAgeCheck == LnprobReturned /\ CurrentMaxAge <= CurrentUniverseAge

(* C14: in every get_lnprob call that passes the age check, the error      *)
(* hyperparameters used are the "hypspec" / "hypphot" values of the call's *)
(* configuration where the key is present and 1.0 where it is absent,      *)
(* whatever configurations earlier calls of the session were given.        *)
C14_HyperparametersOfCurrentCall ==
    PassedAgeCheck =>
        /\ self.hyp_spec = Hyperparameter(self.model_components, <<"hypspec">>)
        /\ self.hyp_phot = Hyperparameter(self.model_components, <<"hypphot">>)

---------------------------------------------------------------------------
(* The sample table of the posterior store *)

(* C16: once posterior["samples"] holds the sample table, no later call of *)
(* the Fit object (get_model, load_posterior, get_post_info, fit,          *)
(* plot_corner with any param_names_tolog) changes a value of it, nor of   *)
(* the per-parameter columns, which are views of it.                       *)
C16_SamplesKeepTheirValues ==
    [][(Constructed /\ self.posterior.samples # Unset) =>
            /\ self'.posterior.samples = self.posterior.samples
            /\ self'.posterior.columns = self.posterior.columns]_vars

---------------------------------------------------------------------------
(* The goodness of fit recorded by fit() *)

FitCompleted == Constructed /\ call.op = "fit" /\ call.exc = "none"

(* the forward model of the configuration a vector stands for *)
ModelAt(x) == Model_update(self.Model, get_model_components(self, x).mc)

(* the chi-squared of the model at a vector, summed over the data sets     *)
(* that exist                                                              *)
ChisqOfModelAt(x) ==
    (IF Galaxy.spectrum_exists
     THEN chi_squared(galaxy_spectrum(Galaxy),
                      [j \in 1..Galaxy.n_spec |-> Model_spectrum(ModelAt(x))[j].flux])
     ELSE 0)
    + (IF Galaxy.photometry_exists
       THEN chi_squared(galaxy_photometry(Galaxy), Model_photometry(ModelAt(x), Galaxy.n_phot))
       ELSE 0)

(* C13: when fit() returns, get_lnprob has been called once at the         *)
(* best-fit vector after the sampler's own calls (besides that call the    *)
(* forward model is updated once for the median and once for every sample  *)
(* replayed), and min_chisq is the chi-squared of the model at the         *)
(* best-fit vector summed over the data sets that exist, whatever vector   *)
(* the sampler returns as the best fit, one the age check vetoes included. *)
C13_MinChisqOfBestFit ==
    FitCompleted =>
        /\ call.adapter_calls = Len(call.arg.v) + 1 + 1 + post_info.adapter_calls
        /\ self.min_chisq.v = ChisqOfModelAt(self.best_fit_params)

---------------------------------------------------------------------------
(* What fit() leaves cached *)

(* the last row of the sample table of the store *)
LastSample == Array(self.posterior.samples.v[self.posterior.samples.shape[1]])

(* C17: when fit() returns and the sample table has at least one sample,   *)
(* model_components and the forward model are those of the last sample of  *)
(* the table, replayed by the reconstruction after the get_model call at   *)
(* the median, while chisq_spec / chisq_phot are still those the best-fit  *)
(* evaluation left, of which min_chisq is the sum.                         *)
C17_LastSampleLeftCached ==
    (FitCompleted /\ self.posterior.samples.shape[1] >= 1) =>
        /\ self.model_components = get_model_components(self, LastSample).mc
        /\ self.Model.components = self.model_components
        /\ total_chisq(self).v = self.min_chisq.v

=============================================================================
